---- MODULE Spec2Model ----
(***************************************************************************)
(* Client-side request batching (useBatchMutation / chunkArray).           *)
(*                                                                         *)
(* The imperative orchestrator is the hook useBatchMutation: one call of   *)
(* mutateBatch / mutateBatchAsync runs the mutationFn closure once, which  *)
(* resets the shared progress state, chunks the items, calls the per-batch *)
(* operation once per batch, counts the settlements in the closure's       *)
(* completedCount and aggregates after Promise.all.  Every callback of the *)
(* single JavaScript thread is one action.  The per-batch operation is an  *)
(* opaque asynchronous function: each call returns a promise that is later *)
(* fulfilled or rejected, in any order across the calls.                   *)
(***************************************************************************)
EXTENDS Integers, Sequences, FiniteSets, TLC

\* ------------------------------------------------------------------ bounds

\* longest item collection handed to one trigger
MaxLen == 4
\* largest configured batch size
MaxBatchSize == 3
\* number of triggers in one run
MaxInvocations == 2
\* number of per-batch operation calls in one run
MaxCalls == 3
\* number of distinct item values before the pool of items repeats
NumItemKinds == 3
\* the batch count of the long invocation of SpecLarge
LargeBatches == 200
\* largest id of the collections useBatchQuery is rendered with
MaxId == 3
\* largest batch size useBatchQuery is rendered with
MaxQueryBatchSize == 2
\* number of queryFn calls in one run
MaxQueryCalls == 3

VARIABLES
    batchSize,   \* the hook's batchSize option
    progress,    \* the hook's useState(0) progress value
    invs,        \* the invocations of mutationFn, in trigger order
    calls,       \* log of the calls of the per-batch operation, in call order
    mutation,    \* what useMutation exposes: status, data and error, the run of
                 \* mutationFn it follows and the retry option it was given
    hook,        \* the props useBatchQuery was last rendered with; hits are the
                 \* batches that had fresh data in the cache at that render,
                 \* fetched the batches queryFn was called for by it
    cache,       \* the queries of the query client
    qcalls,      \* the number of calls of queryFn so far
    refetches    \* the calls of the hook's refetch, in call order

\* the state of the imperative orchestrator and of the cached orchestrator
mvars == <<batchSize, progress, invs, calls, mutation>>
qvars == <<hook, cache, qcalls, refetches>>

vars == <<batchSize, progress, invs, calls, mutation, hook, cache, qcalls, refetches>>

\* --------------------------------------------------------------- chunkArray

Min(a, b) == IF a < b THEN a ELSE b

\* array.slice(start, end) with the end running to the end of the array
SliceToEnd(array, start, end) == SubSeq(array, start + 1, Len(array))

\* array.slice(start, end) with the last element of each chunk lost
SliceShort(array, start, end) == SubSeq(array, start + 1, Min(end - 1, Len(array)))

\* array.slice(start, end) for 0 <= start <= end: the elements at the 0-based
\* positions start .. end-1, as far as the array has them
Slice(array, start, end) == SubSeq(array, start + 1, Min(end, Len(array)))

\* the loop of chunkArray with the condition i <= array.length
LoopValuesInclusive(array, size) == {i \in 0..Len(array) : i % size = 0}

\* the values the loop variable of chunkArray takes for size > 0:
\* i = 0, then i += size while i < array.length
LoopValues(array, size) == {i \in 0..(Len(array) - 1) : i % size = 0}

\* The loop of chunkArray never exits: with size <= 0 the step i += size never
\* raises i, so for a non-empty array the condition i < array.length stays
\* true.
Diverges(array, size) == Len(array) > 0 /\ size <= 0

\* chunkArray when its loop exits: one chunks.push(array.slice(i, i + size))
\* per value of the loop variable, in increasing i (the j-th value is
\* (j - 1) * size).
chunkArray(array, size) ==
    [j \in 1..Cardinality(LoopValues(array, size)) |->
        Slice(array, (j - 1) * size, (j - 1) * size + size)]

\* ----------------------------------------------------------------- progress

\* The pairs <<completed, total>>, total <= 240, for which the double
\* (completed / total) * 100 falls just below k + 0.5 although the exact
\* quotient is k + 0.5 (IEEE 754 binary64, as JavaScript numbers are).
FloatBelowHalf ==
    { <<23, 40>>, <<46, 80>>, <<69, 120>>, <<92, 160>>, <<29, 200>>, <<57, 200>>,
      <<113, 200>>, <<115, 200>>, <<138, 240>> }

\* the percentage of the batches still pending
Round100Remaining(completedCount, total) ==
    (200 * (total - completedCount) + total) \div (2 * total)

\* Math.floor in place of Math.round
Floor100(completedCount, total) == (100 * completedCount) \div total

\* Math.round((completedCount / batches.length) * 100): Math.round rounds a
\* half up, so the exact value is floor((200 c + n) / 2n).
Round100(completedCount, total) ==
    LET exact == (200 * completedCount + total) \div (2 * total)
    IN  IF <<completedCount, total>> \in FloatBelowHalf THEN exact - 1 ELSE exact

\* a reset that keeps the value a previous invocation left
KeepProgress(previous) == previous

\* setProgress(0) at the start of mutationFn
ResetProgress(previous) == 0

\* --------------------------------------------------------------- invocation

\* what the n-th call of the per-batch operation resolves / rejects with
Data(call) == <<"data", call>>
Error(call) == <<"error", call>>

\* a slot of the Promise.all result array that no promise has filled yet
NoResult == [success |-> FALSE, value |-> <<>>, index |-> -1]

\* the per-batch promises settle into the result array in settlement order
SlotBySettlement(index, completedCount) == completedCount

\* Promise.all keeps the position of each promise of batchPromises: the outcome
\* of the batch with the 0-based index goes to that index of results
ResultSlot(index, completedCount) == index + 1

\* Promise.all over promises that can reject: the await ends at the first
\* rejection
ReadyAtFirstFailure(inv) ==
    \/ \E j \in 1..Len(inv.ops) : inv.ops[j] = "err"
    \/ \A j \in 1..Len(inv.ops) : inv.ops[j] # "pending"

\* await Promise.all(batchPromises): no batch promise rejects (each ends in a
\* catch), so the await ends when every one of them has settled
AwaitReady(inv) == \A j \in 1..Len(inv.results) : inv.results[j] # NoResult

IsSuccess(r) == r # NoResult /\ r.success
IsFailure(r) == r # NoResult /\ ~r.success

Values(rs) == [j \in 1..Len(rs) |-> rs[j].value]

\* results.forEach: the successes, in the order of the results array
SuccessfulResults(results) == Values(SelectSeq(results, IsSuccess))

\* results.forEach: the errors, in the order of the results array
Errors(results) == Values(SelectSeq(results, IsFailure))

\* completedBatches counting every settled batch
CountSettled(results) == Len(SelectSeq(results, LAMBDA r : r # NoResult))

\* completedBatches: results.filter((r) => r.success).length
CompletedBatches(results) == Len(SelectSeq(results, IsSuccess))

\* throw of the last error
LastError(errors) == errors[Len(errors)]

\* throw errors[0]
ThrownError(errors) == errors[1]

\* the object mutationFn returns after the aggregation
AggregatedResult(inv) ==
    [data |-> SuccessfulResults(inv.results),
     totalBatches |-> Len(inv.batches),
     completedBatches |-> CompletedBatches(inv.results),
     errors |-> Errors(inv.results)]

\* the object mutationFn returns when there are no batches
EmptyResult == [data |-> <<>>, totalBatches |-> 0, completedBatches |-> 0, errors |-> <<>>]

\* the chunking never returned: the thread is inside chunkArray for good
Hung == \E k \in 1..Len(invs) : invs[k].state = "hung"

\* undefined data and null error of the mutation
Undefined == <<>>

\* the mutation before the first trigger
Idle(retry) ==
    [status |-> "idle", data |-> Undefined, error |-> Undefined, tracked |-> 0,
     retry |-> retry]

\* mutate: the observable state follows the run with this position in invs,
\* pending, with no data and no error
Started(run) ==
    [mutation EXCEPT !.status = "pending", !.data = Undefined, !.error = Undefined,
                     !.tracked = run]

\* mutationFn returned: success with the returned value as data
Succeeded(value) ==
    [mutation EXCEPT !.status = "success", !.data = value, !.error = Undefined]

\* mutationFn threw: the mutation stays as it was
ThrewUnseen(failures, error) == mutation

\* mutationFn threw after its last permitted run: error with what was thrown;
\* before that the mutation stays pending for the retry
ThrewWith(failures, error) ==
    IF failures < mutation.retry THEN mutation
    ELSE [mutation EXCEPT !.status = "error", !.error = error]

\* The closure of one run of mutationFn and the promise it returned: base is
\* the number of operation calls made before its own, ops the state of each
\* batch's promise, results the array Promise.all fills, order the batch
\* indices in the order their handlers ran, overlapped whether another
\* invocation of the hook was pending at some point of its pending time,
\* failures the number of runs of the same trigger that threw before this one,
\* retried whether a retry has followed this run.
NewInvocation(items, batches, state, value) ==
    [items |-> items,
     batches |-> batches,
     base |-> Len(calls),
     ops |-> [j \in 1..Len(batches) |-> "pending"],
     results |-> [j \in 1..Len(batches) |-> NoResult],
     completedCount |-> 0,
     order |-> <<>>,
     overlapped |-> \E k \in 1..Len(invs) : invs[k].state = "pending",
     failures |-> 0,
     retried |-> FALSE,
     state |-> state,
     value |-> value]

\* batches.map calling the operation from the last batch to the first
BatchCallsReversed(batches) ==
    [j \in 1..Len(batches) |->
        [inv |-> Len(invs) + 1, index |-> Len(batches) - j,
         batch |-> batches[Len(batches) - j + 1]]]

\* batches.map((batch, index) => mutationFn(batch) ...): the calls of the
\* operation a new run makes, in the order of the map
BatchCalls(batches) ==
    [j \in 1..Len(batches) |->
        [inv |-> Len(invs) + 1, index |-> j - 1, batch |-> batches[j]]]

\* the invocations so far, the pending ones now overlapped by a new one
Overlapped ==
    [k \in 1..Len(invs) |->
        IF invs[k].state = "pending" THEN [invs[k] EXCEPT !.overlapped = TRUE] ELSE invs[k]]

\* mutateBatch(items) / mutateBatchAsync(items): mutationFn runs to its await.
Trigger(items) ==
    /\ ~Hung
    /\ LET batches == chunkArray(items, batchSize) IN
       IF Diverges(items, batchSize)
       THEN /\ invs' = Append(Overlapped, NewInvocation(items, <<>>, "hung", <<>>))
            /\ progress' = ResetProgress(progress)
            /\ mutation' = Started(Len(invs) + 1)
            /\ UNCHANGED calls
       ELSE IF Len(batches) = 0
       THEN /\ invs' = Append(Overlapped, NewInvocation(items, <<>>, "resolved", EmptyResult))
            /\ progress' = ResetProgress(progress)
            /\ mutation' = [Started(Len(invs) + 1) EXCEPT !.status = "success",
                                                          !.data = EmptyResult]
            /\ UNCHANGED calls
       ELSE /\ invs' = Append(Overlapped, NewInvocation(items, batches, "pending", <<>>))
            /\ progress' = ResetProgress(progress)
            /\ mutation' = Started(Len(invs) + 1)
            /\ calls' = calls \o BatchCalls(batches)
    /\ UNCHANGED <<batchSize, qvars>>

\* a handler that counts only the first settlement
IncrementedOnce(completedCount) == IF completedCount = 0 THEN 1 ELSE completedCount

\* completedCount++ in the then and the catch handler
Incremented(completedCount) == completedCount + 1

\* The promise of batch index (0-based) of invocation k settles with a value
\* and its then (ok) or catch (~ok) handler runs.
SettleWith(k, index, ok, value) ==
    /\ ~Hung
    /\ invs[k].state = "pending"
    /\ invs[k].ops[index + 1] = "pending"
    /\ LET inv == invs[k]
           count == Incremented(inv.completedCount)
           outcome == [success |-> ok, value |-> value, index |-> index]
       IN  /\ invs' = [invs EXCEPT ![k] =
                         [inv EXCEPT !.ops[index + 1] = IF ok THEN "ok" ELSE "err",
                                     !.completedCount = count,
                                     !.order = Append(inv.order, index),
                                     !.results[ResultSlot(index, count)] = outcome]]
           /\ progress' = Round100(count, Len(inv.batches))
    /\ UNCHANGED <<batchSize, calls, mutation, qvars>>

\* the operation resolves with the data, or rejects with the error, of its call
Settle(k, index, ok) ==
    LET call == invs[k].base + index + 1
    IN  SettleWith(k, index, ok, IF ok THEN Data(call) ELSE Error(call))

\* the operation resolves with null, 0, false or the empty string
SettleFalsy(k, index) == SettleWith(k, index, TRUE, <<"falsy">>)

\* mutateBatch(items) with a per-batch operation that throws before it returns
\* a promise when it is called for the batch with the 0-based index thrown:
\* batches.map has called the operation for the batches before it, the throw
\* leaves the map and mutationFn, and the invocation rejects with what was
\* thrown.  The batches after it are never dispatched; the promises of those
\* before it keep their handlers.
TriggerThrowing(items, thrown) ==
    /\ ~Hung
    /\ ~Diverges(items, batchSize)
    /\ LET batches == chunkArray(items, batchSize)
           new == NewInvocation(items, batches, "rejected", Error(Len(calls) + thrown + 1))
       IN  /\ thrown \in 0..(Len(batches) - 1)
           /\ invs' = Append(Overlapped,
                  [new EXCEPT !.ops = [j \in 1..Len(batches) |->
                                         IF j - 1 < thrown THEN "pending"
                                         ELSE IF j - 1 = thrown THEN "thrown"
                                         ELSE "undispatched"]])
           /\ progress' = ResetProgress(progress)
           /\ mutation' = LET started == Started(Len(invs) + 1)
                          IN  IF 0 < mutation.retry THEN started
                              ELSE [started EXCEPT !.status = "error", !.error = new.value]
           /\ calls' = calls \o SubSeq(BatchCalls(batches), 1, thrown + 1)
    /\ UNCHANGED <<batchSize, qvars>>

\* A promise of an invocation that a throw has ended settles: its then (ok) or
\* catch (~ok) handler runs as in Settle, and nothing awaits its outcome.
SettleAfterThrow(k, index, ok) ==
    /\ ~Hung
    /\ invs[k].state = "rejected"
    /\ invs[k].ops[index + 1] = "pending"
    /\ LET inv == invs[k]
           count == Incremented(inv.completedCount)
           call == inv.base + index + 1
           outcome == [success |-> ok,
                       value |-> IF ok THEN Data(call) ELSE Error(call),
                       index |-> index]
       IN  /\ invs' = [invs EXCEPT ![k] =
                         [inv EXCEPT !.ops[index + 1] = IF ok THEN "ok" ELSE "err",
                                     !.completedCount = count,
                                     !.order = Append(inv.order, index),
                                     !.results[ResultSlot(index, count)] = outcome]]
           /\ progress' = Round100(count, Len(inv.batches))
    /\ UNCHANGED <<batchSize, calls, mutation, qvars>>

\* a retry after every run that recorded an error
RetriesAnyError(inv) ==
    /\ inv.state \in {"rejected", "resolved"}
    /\ ~inv.retried
    /\ \E j \in 1..Len(inv.ops) : inv.ops[j] = "err"
    /\ inv.failures < mutation.retry

\* the retry option: a run of mutationFn that threw is followed by another as
\* long as fewer than retry runs of the trigger have failed before it
Retries(inv) ==
    /\ inv.state = "rejected"
    /\ ~inv.retried
    /\ inv.failures < mutation.retry

\* The retry of run k: mutationFn runs again with the items of the trigger,
\* resets the progress, chunks and dispatches every batch; the mutation stays
\* pending and follows the new run if it followed the old one.
Retry(k) ==
    /\ ~Hung
    /\ Retries(invs[k])
    /\ LET inv == invs[k]
           batches == chunkArray(inv.items, batchSize)
           new == NewInvocation(inv.items, batches, "pending", <<>>)
       IN  /\ invs' = Append([Overlapped EXCEPT ![k].retried = TRUE],
                             [new EXCEPT !.failures = inv.failures + 1])
           /\ progress' = ResetProgress(progress)
           /\ calls' = calls \o BatchCalls(batches)
           /\ mutation' = [mutation EXCEPT !.tracked = IF @ = k THEN Len(invs) + 1 ELSE @]
    /\ UNCHANGED <<batchSize, qvars>>

\* The await of Promise.all ends: aggregation, then throw or return.
Complete(k) ==
    /\ ~Hung
    /\ invs[k].state = "pending"
    /\ AwaitReady(invs[k])
    /\ LET inv == invs[k]
           successfulResults == SuccessfulResults(inv.results)
           errors == Errors(inv.results)
       IN  IF Len(successfulResults) = 0 /\ Len(errors) > 0
           THEN /\ invs' = [invs EXCEPT ![k] =
                              [inv EXCEPT !.state = "rejected", !.value = ThrownError(errors)]]
                /\ mutation' = ThrewWith(inv.failures, ThrownError(errors))
           ELSE /\ invs' = [invs EXCEPT ![k] =
                              [inv EXCEPT !.state = "resolved", !.value = AggregatedResult(inv)]]
                /\ mutation' = Succeeded(AggregatedResult(inv))
    /\ UNCHANGED <<batchSize, progress, calls, qvars>>

\* ------------------------------------------------------------ specifications

\* item k of the pool the callers draw their collections from
ItemAt(k) == ((k - 1) % NumItemKinds) + 1

\* the collection of the first n items of the pool
Items(n) == [k \in 1..n |-> ItemAt(k)]

InputSeqs == { Items(n) : n \in 0..MaxLen }

BatchCount(n, size) == (n + size - 1) \div size

\* no useBatchQuery has been rendered and the query client is empty
NoProps ==
    [queryKey |-> <<>>, items |-> <<>>, batchSize |-> 1, mounted |-> FALSE,
     hits |-> {}, fetched |-> {}]

Unmounted ==
    /\ hook = NoProps
    /\ cache = {}
    /\ qcalls = 0
    /\ refetches = <<>>

Init ==
    /\ batchSize \in 1..MaxBatchSize
    /\ progress = 0
    /\ invs = <<>>
    /\ calls = <<>>
    /\ mutation = Idle(0)
    /\ Unmounted

TriggerAny ==
    \E items \in InputSeqs :
        /\ Len(invs) < MaxInvocations
        /\ batchSize > 0 => Len(calls) + BatchCount(Len(items), batchSize) <= MaxCalls
        /\ Trigger(items)

SettleAny ==
    \E k \in 1..Len(invs) : \E j \in 1..Len(invs[k].ops) : \E ok \in BOOLEAN :
        Settle(k, j - 1, ok)

CompleteAny == \E k \in 1..Len(invs) : Complete(k)

Next == TriggerAny \/ SettleAny \/ CompleteAny

Spec == Init /\ [][Next]_vars

\* the per-batch operation may throw before it returns its promise
TriggerThrowingAny ==
    \E items \in InputSeqs : \E thrown \in 0..(MaxCalls - 1) :
        /\ Len(invs) < MaxInvocations
        /\ Len(calls) + thrown + 1 <= MaxCalls
        /\ TriggerThrowing(items, thrown)

SettleAfterThrowAny ==
    \E k \in 1..Len(invs) : \E j \in 1..Len(invs[k].ops) : \E ok \in BOOLEAN :
        SettleAfterThrow(k, j - 1, ok)

NextThrow == TriggerAny \/ TriggerThrowingAny \/ SettleAny \/ SettleAfterThrowAny \/ CompleteAny

SpecThrow == Init /\ [][NextThrow]_vars

\* the retry option of useUsersBatch
UsersRetry == 2

\* useUsersBatch: one trigger of a mutation with retry: 2
InitRetry ==
    /\ batchSize \in 1..MaxBatchSize
    /\ progress = 0
    /\ invs = <<>>
    /\ calls = <<>>
    /\ mutation = Idle(UsersRetry)
    /\ Unmounted

TriggerRetry ==
    \E items \in InputSeqs :
        /\ Len(invs) < 1
        /\ BatchCount(Len(items), batchSize) <= MaxCalls
        /\ Trigger(items)

RetryAny == \E k \in 1..Len(invs) : Retry(k)

NextRetry == TriggerRetry \/ SettleAny \/ CompleteAny \/ RetryAny

SpecRetry == InitRetry /\ [][NextRetry]_vars

\* every sequence of at most MaxLen items
AllSeqs == UNION { [1..n -> 1..NumItemKinds] : n \in 0..MaxLen }

\* one trigger with an arbitrary item collection: the chunker on all its inputs
TriggerChunk ==
    \E items \in AllSeqs :
        /\ Len(invs) < 1
        /\ Trigger(items)

SpecChunk == Init /\ [][TriggerChunk]_vars

\* the batch size option left invalid: 0, negative, or valid
InitConfig ==
    /\ batchSize \in -1..MaxBatchSize
    /\ progress = 0
    /\ invs = <<>>
    /\ calls = <<>>
    /\ mutation = Idle(0)
    /\ Unmounted

SpecConfig == InitConfig /\ [][Next]_vars

\* one invocation of LargeBatches - 1 or LargeBatches batches of one item
InitLarge ==
    /\ batchSize = 1
    /\ progress = 0
    /\ invs = <<>>
    /\ calls = <<>>
    /\ mutation = Idle(0)
    /\ Unmounted

TriggerLarge ==
    \E n \in {LargeBatches - 1, LargeBatches} :
        /\ Len(invs) < 1
        /\ Trigger(Items(n))

\* the batches succeed one after the other, in index order
SettleInOrder ==
    \E k \in 1..Len(invs) : \E j \in 1..Len(invs[k].ops) :
        /\ \A i \in 1..(j - 1) : invs[k].ops[i] # "pending"
        /\ Settle(k, j - 1, TRUE)

NextLarge == TriggerLarge \/ SettleInOrder \/ CompleteAny

SpecLarge == InitLarge /\ [][NextLarge]_vars

\* ------------------------------------------------------------ useBatchQuery

\* The cached orchestrator is the hook useBatchQuery: every render chunks the
\* items of its props, hands one query per batch to useQueries and folds the
\* observed queries into one result.  The query client behind useQueries is
\* the external cache: it keeps one query per key, runs at most one fetch of a
\* query at a time, and fetches a query on behalf of a new observer when the
\* query has no fresh data.

\* the batchSize of a config that leaves it out
DefaultBatchSize == 500

\* the parts of a query key, which JavaScript keeps apart by their type
Str(s) == <<"string", s>>
Num(n) == <<"number", n>>
Arr(a) == <<"array", a>>

\* the key without the batch index
QueryKeyNoIndex(queryKey, index, batch) == queryKey \o <<Str("batch"), Arr(batch)>>

\* queryKey: [...queryKey, 'batch', index, batch]
QueryKey(queryKey, index, batch) == queryKey \o <<Str("batch"), Num(index), Arr(batch)>>

\* the batches of a render and the keys of its queries, in index order
Batches(props) == chunkArray(props.items, props.batchSize)
Keys(props) ==
    LET batches == Batches(props)
    IN  [j \in 1..Len(batches) |-> QueryKey(props.queryKey, j - 1, batches[j])]

\* undefined data, null error, and a data value that is falsy: null, 0, false
\* or the empty string
NoData == <<>>
NoError == <<>>
Falsy == <<"falsy">>

\* JavaScript truthiness of the data or the error of a query
Truthy(value) == value # NoData /\ value # Falsy

\* the query of the cache with this key, if there is one
Cached(key) == \E query \in cache : query.queryKey = key
Find(key) == CHOOSE query \in cache : query.queryKey = key

\* what the n-th call of queryFn for a batch resolves / rejects with
QueryData(batch, n) == <<"data", batch, n>>
QueryError(batch, n) == <<"error", batch, n>>

\* A query created for its first observer, its first fetch running.  base,
\* index and batch are what the render that made the query fetch built its key
\* and its queryFn from; fetches counts the calls of queryFn for the query.
NewQuery(key, base, index, batch) ==
    [queryKey |-> key,
     base |-> base,
     index |-> index,
     batch |-> batch,
     status |-> "pending",
     fetchStatus |-> "fetching",
     data |-> NoData,
     error |-> NoError,
     isStale |-> TRUE,
     fetches |-> 1]

\* a new observer makes an idle query fetch unless the query has fresh data
NeedsFetch(query) ==
    /\ query.fetchStatus = "idle"
    /\ query.status # "success" \/ query.isStale

\* a fetch starts on an existing query: a query without data is pending again
StartFetch(query, base, index, batch) ==
    [query EXCEPT !.fetchStatus = "fetching",
                  !.base = base,
                  !.index = index,
                  !.batch = batch,
                  !.fetches = @ + 1,
                  !.status = IF query.data = NoData THEN "pending" ELSE query.status,
                  !.error = IF query.data = NoData THEN NoError ELSE query.error]

\* the keys useQueries observes before the render
Observed == IF hook.mounted THEN Keys(hook) ELSE <<>>

\* The batch indices (1-based) of a render whose query starts a fetch: the key
\* was not observed before the render, and its query is new or needs a fetch.
ToFetch(props) ==
    LET keys == Keys(props)
        observed == Observed
    IN
    {j \in 1..Len(keys) :
        /\ \A i \in 1..Len(observed) : observed[i] # keys[j]
        /\ \A i \in 1..(j - 1) : keys[i] # keys[j]
        /\ Cached(keys[j]) => NeedsFetch(Find(keys[j]))}

\* the query holds data of a fetch for this batch of this base key that is
\* within its freshness window
HoldsFresh(query, base, index, batch) ==
    /\ query.base = base
    /\ query.index = index
    /\ query.batch = batch
    /\ query.status = "success"
    /\ ~query.isStale

\* the batches of a render, by their 1-based index, that have fresh data in
\* the cache
Hits(queryKey, items, size) ==
    LET batches == chunkArray(items, size) IN
    {j \in 1..Len(batches) :
        \E query \in cache : HoldsFresh(query, queryKey, j - 1, batches[j])}

\* the props of a render
Props(queryKey, items, size) ==
    [queryKey |-> queryKey, items |-> items, batchSize |-> size, mounted |-> TRUE,
     hits |-> {}, fetched |-> {}]

\* A render of useBatchQuery with new props that makes the queries of the
\* batches in fetch (1-based indices) start a fetch: the query client calls
\* queryFn once for each of them.
RenderFetching(queryKey, items, size, fetch) ==
    LET props == Props(queryKey, items, size)
        batches == Batches(props)
        keys == Keys(props)
    IN  /\ ~Diverges(items, size)
        /\ props # [hook EXCEPT !.hits = {}, !.fetched = {}]
        /\ hook' = [props EXCEPT !.hits = Hits(queryKey, items, size), !.fetched = fetch]
        /\ cache' = {IF \E j \in fetch : keys[j] = query.queryKey
                     THEN LET j == CHOOSE j \in fetch : keys[j] = query.queryKey
                          IN  StartFetch(query, queryKey, j - 1, batches[j])
                     ELSE query : query \in cache}
                    \cup {NewQuery(keys[j], queryKey, j - 1, batches[j]) :
                            j \in {i \in fetch : ~Cached(keys[i])}}
        /\ qcalls' = qcalls + Cardinality(fetch)
        /\ UNCHANGED <<mvars, refetches>>

\* a render that calls queryFn for every batch, whatever the cache holds
RenderAll(queryKey, items, size) ==
    RenderFetching(queryKey, items, size, 1..Len(chunkArray(items, size)))

\* useBatchQuery renders with new props (the first render mounts it):
\* useQueries observes the queries of the batches, and the query client
\* fetches those that are new or have no fresh data.
Render(queryKey, items, size) ==
    RenderFetching(queryKey, items, size, ToFetch(Props(queryKey, items, size)))

\* the component using the hook unmounts: its queries stay in the cache
Unmount ==
    /\ hook.mounted
    /\ hook' = NoProps
    /\ UNCHANGED <<mvars, cache, qcalls, refetches>>

\* the cache with one query replaced
Replace(old, new) == (cache \ {old}) \cup {new}

\* the calls of refetch after the fetch of the query with this key has ended:
\* the promise query.refetch() returned for it is fulfilled, whatever the
\* outcome of the fetch
Fulfilled(key) ==
    [n \in 1..Len(refetches) |-> [refetches[n] EXCEPT !.waiting = @ \ {key}]]

\* the running fetch of a query ends: queryFn resolved with a value
Resolve(query, value) ==
    /\ query \in cache
    /\ query.fetchStatus = "fetching"
    /\ cache' = Replace(query, [query EXCEPT !.status = "success",
                                             !.fetchStatus = "idle",
                                             !.data = value,
                                             !.error = NoError,
                                             !.isStale = FALSE])
    /\ refetches' = Fulfilled(query.queryKey)
    /\ UNCHANGED <<mvars, hook, qcalls>>

\* the running fetch of a query ends: queryFn rejected; the data of an earlier
\* success stays
Reject(query) ==
    /\ query \in cache
    /\ query.fetchStatus = "fetching"
    /\ cache' = Replace(query, [query EXCEPT !.status = "error",
                                             !.fetchStatus = "idle",
                                             !.error = QueryError(query.batch, query.fetches)])
    /\ refetches' = Fulfilled(query.queryKey)
    /\ UNCHANGED <<mvars, hook, qcalls>>

\* the freshness window of the data of a query ends
Expire(query) ==
    /\ query \in cache
    /\ query.status = "success"
    /\ ~query.isStale
    /\ cache' = Replace(query, [query EXCEPT !.isStale = TRUE])
    /\ UNCHANGED <<mvars, hook, qcalls, refetches>>

\* Promise.all that ends with the first promise to be fulfilled
AnyRefetched(call) == call.keys = <<>> \/ \E j \in 1..Len(call.keys) : call.keys[j] \notin call.waiting

\* await Promise.all(queries.map((query) => query.refetch())): every promise
\* has been fulfilled
AllRefetched(call) == \A j \in 1..Len(call.keys) : call.keys[j] \notin call.waiting

\* refetch over the queries of the first batch only
RefetchedFirst(keys) == {j \in 1..Len(keys) : j = 1}

\* queries.map((query) => query.refetch()): every query of the render
Refetched(keys) == 1..Len(keys)

\* refetch() of the mounted hook: query.refetch() for the queries of the last
\* render, each starting a new fetch of its query (a running fetch gives way
\* to it), then the await of all the promises.  before and fresh record the
\* fetch count of each query and the batches with fresh data at the call.
Refetch ==
    /\ hook.mounted
    /\ LET keys == Keys(hook)
           started == Refetched(keys)
           isKey(key) == \E j \in started : keys[j] = key
       IN  /\ cache' = {IF isKey(query.queryKey)
                        THEN StartFetch(query, query.base, query.index, query.batch)
                        ELSE query : query \in cache}
           /\ qcalls' = qcalls + Cardinality(started)
           /\ refetches' = Append(refetches,
                  [keys |-> keys,
                   before |-> [j \in 1..Len(keys) |-> Find(keys[j]).fetches],
                   fresh |-> {j \in 1..Len(keys) : Find(keys[j]).status = "success"
                                                    /\ ~Find(keys[j]).isStale},
                   called |-> Cardinality(started),
                   waiting |-> {keys[j] : j \in started},
                   state |-> "pending"])
    /\ UNCHANGED <<mvars, hook>>

\* the await of refetch ends and the promise refetch returned resolves
RefetchDone(n) ==
    /\ refetches[n].state = "pending"
    /\ AllRefetched(refetches[n])
    /\ refetches' = [refetches EXCEPT ![n].state = "resolved"]
    /\ UNCHANGED <<mvars, hook, cache, qcalls>>

\* what the observer of a query hands to the hook
QueryResult(query) ==
    [data |-> query.data,
     error |-> query.error,
     isSuccess |-> query.status = "success",
     isError |-> query.status = "error",
     isLoading |-> query.status = "pending" /\ query.fetchStatus = "fetching",
     isFetching |-> query.fetchStatus = "fetching"]

\* the array useQueries returns for the queries of the current props
Queries(props) ==
    LET keys == Keys(props)
    IN  [j \in 1..Len(keys) |-> QueryResult(Find(keys[j]))]

\* the first branch of the forEach: query.isSuccess && query.data
CountsAsSuccess(query) == query.isSuccess /\ Truthy(query.data)

\* the second branch of the forEach: else if (query.isError && query.error)
CountsAsError(query) == ~CountsAsSuccess(query) /\ query.isError /\ Truthy(query.error)

\* successfulResults, errors and completedCount after the forEach
QuerySuccessfulResults(queries) ==
    LET pushed == SelectSeq(queries, CountsAsSuccess)
    IN  [n \in 1..Len(pushed) |-> pushed[n].data]

QueryErrors(queries) ==
    LET pushed == SelectSeq(queries, CountsAsError)
    IN  [n \in 1..Len(pushed) |-> pushed[n].error]

QueryCompletedCount(queries) ==
    Len(QuerySuccessfulResults(queries)) + Len(QueryErrors(queries))

\* completedBatches counting the errored queries too
QueryCountSettled(queries) ==
    Len(SelectSeq(queries, LAMBDA q : q.isSuccess \/ q.isError))

\* queries.filter((q) => q.isSuccess).length
QueryCompletedBatches(queries) ==
    Len(SelectSeq(queries, LAMBDA q : q.isSuccess))

\* totalBatches > 0 ? Math.round((completedCount / totalBatches) * 100) : 0
QueryProgress(completedCount, totalBatches) ==
    IF totalBatches > 0 THEN Round100(completedCount, totalBatches) ELSE 0

\* queries.find((q) => q.isError) at the last errored query
LastQueryError(queries) ==
    LET errored == SelectSeq(queries, LAMBDA q : q.isError)
    IN  IF Len(errored) = 0 THEN NoError
        ELSE IF Truthy(errored[Len(errored)].error) THEN errored[Len(errored)].error ELSE NoError

\* queries.find((q) => q.isError)?.error || null
FirstQueryError(queries) ==
    LET errored == SelectSeq(queries, LAMBDA q : q.isError)
    IN  IF Len(errored) = 0 THEN NoError
        ELSE IF Truthy(errored[1].error) THEN errored[1].error ELSE NoError

\* queries.every((q) => q.isSuccess)
EverySuccess(queries) == \A j \in 1..Len(queries) : queries[j].isSuccess

\* the object the result memo returns
Result(queries, totalBatches) ==
    [data |-> [data |-> QuerySuccessfulResults(queries),
               totalBatches |-> totalBatches,
               completedBatches |-> QueryCompletedBatches(queries),
               errors |-> QueryErrors(queries)],
     progress |-> QueryProgress(QueryCompletedCount(queries), totalBatches),
     isLoading |-> \E j \in 1..Len(queries) : queries[j].isLoading,
     isFetching |-> \E j \in 1..Len(queries) : queries[j].isFetching,
     isSuccess |-> EverySuccess(queries),
     isError |-> \E j \in 1..Len(queries) : queries[j].isError,
     error |-> FirstQueryError(queries)]

\* what the mounted hook returns in the current state
View == Result(Queries(hook), Len(Batches(hook)))

\* the ids lo .. hi in ascending order
Range(lo, hi) == [k \in 1..(hi - lo + 1) |-> lo + k - 1]

\* the id collections the hook is rendered with: every run of consecutive ids
QueryInputs == {Range(lo, hi) : lo \in 1..MaxId, hi \in 0..MaxId}

\* the base key of useUsersBatchQuery
UsersKey == <<Str("users"), Str("batch")>>

InitQuery ==
    /\ batchSize = DefaultBatchSize
    /\ progress = 0
    /\ invs = <<>>
    /\ calls = <<>>
    /\ mutation = Idle(0)
    /\ Unmounted

RenderAny ==
    \E items \in QueryInputs : \E size \in 1..MaxQueryBatchSize :
        /\ Render(UsersKey, items, size)
        /\ qcalls' <= MaxQueryCalls

\* queryFn resolves with data that is truthy, or with data that is falsy
ResolveData == \E query \in cache : Resolve(query, QueryData(query.batch, query.fetches))

ResolveFalsy == \E query \in cache : Resolve(query, Falsy)

RejectAny == \E query \in cache : Reject(query)

ExpireAny == \E query \in cache : Expire(query)

\* the hook over queries that resolve with any value or reject
NextQuery == RenderAny \/ Unmount \/ ResolveData \/ ResolveFalsy \/ RejectAny

SpecQuery == InitQuery /\ [][NextQuery]_vars

\* the hook over queries whose freshness window can end
NextCache == RenderAny \/ Unmount \/ ResolveData \/ RejectAny \/ ExpireAny

SpecCache == InitQuery /\ [][NextCache]_vars

\* the number of ids the demo pages generate
DemoItems == 1300

\* A page that hands the same ids to both hooks, each with a configured batch
\* size or none: useBatchQuery renders, then mutateBatch runs once on the ids
\* of the last render.
InitTotals ==
    /\ batchSize \in (1..MaxBatchSize) \cup {DefaultBatchSize}
    /\ progress = 0
    /\ invs = <<>>
    /\ calls = <<>>
    /\ mutation = Idle(0)
    /\ Unmounted

RenderTotals ==
    \E items \in QueryInputs \cup {Range(1, DemoItems)} :
    \E size \in (1..MaxQueryBatchSize) \cup {DefaultBatchSize} :
        /\ invs = <<>>
        /\ BatchCount(Len(items), size) <= MaxQueryCalls
        /\ Render(UsersKey, items, size)
        /\ qcalls' <= MaxQueryCalls

TriggerTotals ==
    /\ hook.mounted
    /\ Len(invs) < 1
    /\ BatchCount(Len(hook.items), batchSize) <= MaxCalls
    /\ Trigger(hook.items)

NextTotals == RenderTotals \/ TriggerTotals \/ SettleAny \/ CompleteAny

SpecTotals == InitTotals /\ [][NextTotals]_vars

\* The hook rendered with overlapping id collections under one batch size, its
\* queries all succeeding: one queryFn call more than in SpecCache, so that a
\* collection of two batches can follow another of two batches.
RenderSuffix ==
    \E items \in QueryInputs :
        /\ Render(UsersKey, items, 1)
        /\ qcalls' <= MaxQueryCalls + 1

NextSuffix == RenderSuffix \/ ResolveData \/ ExpireAny

SpecSuffix == InitQuery /\ [][NextSuffix]_vars

\* base keys of different lengths, one the start of another, with 'batch' and
\* a number among their parts
BaseKeys ==
    { <<Str("users")>>,
      <<Str("users"), Str("batch")>>,
      <<Str("users"), Str("batch"), Num(0)>> }

\* the hook rendered under any of the base keys: the keys of its queries
RenderKeys ==
    \E base \in BaseKeys : \E items \in QueryInputs : \E size \in 1..MaxQueryBatchSize :
        /\ Render(base, items, size)
        /\ qcalls' <= MaxQueryCalls

NextKeys == RenderKeys \/ Unmount

SpecKeys == InitQuery /\ [][NextKeys]_vars

\* The hook rendered with batches of one id, then refetch called once while its queries are pending,
\* fresh, stale or errored: a refetch of two batches after a render of two
\* takes one queryFn call more than SpecCache has.
RenderRefetch ==
    \E items \in QueryInputs :
        /\ Render(UsersKey, items, 1)
        /\ qcalls' <= MaxQueryCalls

RefetchAny ==
    /\ Len(refetches) < 1
    /\ Refetch
    /\ qcalls' <= MaxQueryCalls + 1

RefetchDoneAny == \E n \in 1..Len(refetches) : RefetchDone(n)

NextRefetch ==
    RenderRefetch \/ RefetchAny \/ ResolveData \/ RejectAny \/ ExpireAny \/ RefetchDoneAny

SpecRefetch == InitQuery /\ [][NextRefetch]_vars

\* A page that hands the same ids and the same batch size to both hooks with
\* the same per-batch operation: useBatchQuery renders once, and when its
\* queries have settled mutateBatch runs once on the same ids.
InitBoth ==
    /\ batchSize \in 1..MaxQueryBatchSize
    /\ progress = 0
    /\ invs = <<>>
    /\ calls = <<>>
    /\ mutation = Idle(0)
    /\ Unmounted

RenderBoth ==
    \E items \in QueryInputs :
        /\ ~hook.mounted
        /\ Render(UsersKey, items, batchSize)
        /\ qcalls' <= MaxQueryCalls

TriggerBoth ==
    /\ hook.mounted
    /\ \A query \in cache : query.fetchStatus = "idle"
    /\ Len(invs) < 1
    /\ Trigger(hook.items)

SettleFalsyAny ==
    \E k \in 1..Len(invs) : \E j \in 1..Len(invs[k].ops) : SettleFalsy(k, j - 1)

NextBoth ==
    \/ RenderBoth
    \/ ResolveData
    \/ ResolveFalsy
    \/ RejectAny
    \/ TriggerBoth
    \/ SettleAny
    \/ SettleFalsyAny
    \/ CompleteAny

SpecBoth == InitBoth /\ [][NextBoth]_vars

\* ------------------------------------------------------------------- claims

Settled(inv) == inv.state \in {"resolved", "rejected"}
AllOpsSettled(inv) == \A j \in 1..Len(inv.ops) : inv.ops[j] # "pending"
OkCount(inv) == Cardinality({j \in 1..Len(inv.ops) : inv.ops[j] = "ok"})
ErrCount(inv) == Cardinality({j \in 1..Len(inv.ops) : inv.ops[j] = "err"})

RECURSIVE Flatten(_)
Flatten(chunks) == IF chunks = <<>> THEN <<>> ELSE Head(chunks) \o Flatten(Tail(chunks))

\* C1 as stated: an invocation whose batches have all settled, at least one
\* of them successfully, does not reject, and it resolves with
\* len(data) + len(errors) = completedBatches = totalBatches.
C1_AsStated ==
    \A k \in 1..Len(invs) :
        LET inv == invs[k] IN
        (AllOpsSettled(inv) /\ OkCount(inv) > 0) =>
            /\ inv.state # "rejected"
            /\ inv.state = "resolved" =>
                 /\ Len(inv.value.data) + Len(inv.value.errors) = inv.value.completedBatches
                 /\ inv.value.completedBatches = inv.value.totalBatches

\* C1 (amended): an invocation whose batches have all settled, at least one of
\* them successfully, does not reject, and it resolves with one element of
\* data per successful batch, one element of errors per failed batch,
\* len(data) + len(errors) = totalBatches = the number of batches, and
\* completedBatches = len(data), the number of successful batches.
C1_PartialFailure ==
    \A k \in 1..Len(invs) :
        LET inv == invs[k] IN
        (AllOpsSettled(inv) /\ OkCount(inv) > 0) =>
            /\ inv.state # "rejected"
            /\ inv.state = "resolved" =>
                 /\ Len(inv.value.data) = OkCount(inv)
                 /\ Len(inv.value.errors) = ErrCount(inv)
                 /\ Len(inv.value.data) + Len(inv.value.errors) = inv.value.totalBatches
                 /\ inv.value.totalBatches = Len(inv.batches)
                 /\ inv.value.completedBatches = Len(inv.value.data)

\* three batches, the middle one failed: resolved with 2 data, 1 error, 3 batches
C1_Witness ==
    \E k \in 1..Len(invs) :
        /\ invs[k].ops = <<"ok", "err", "ok">>
        /\ invs[k].state = "resolved"
        /\ Len(invs[k].value.data) = 2
        /\ Len(invs[k].value.errors) = 1
        /\ invs[k].value.completedBatches = 2
        /\ invs[k].value.totalBatches = 3

\* C2: an invocation with at least one batch whose batches all failed, once it
\* has settled, is rejected (no aggregated result), and with the error of the
\* call for batch index 0, the lowest failing index.
C2_TotalFailure ==
    \A k \in 1..Len(invs) :
        LET inv == invs[k] IN
        (Settled(inv) /\ Len(inv.ops) > 0 /\ ErrCount(inv) = Len(inv.ops)) =>
            /\ inv.state = "rejected"
            /\ inv.value = Error(inv.base + 1)
            /\ inv.value = Error(CHOOSE c \in 1..Len(calls) :
                                   calls[c].inv = k /\ calls[c].index = 0)

\* two batches failed, the one with index 1 first, and the invocation was
\* rejected with the error of index 0
C2_Witness ==
    \E k \in 1..Len(invs) :
        /\ invs[k].order = <<1, 0>>
        /\ ErrCount(invs[k]) = 2
        /\ invs[k].state = "rejected"
        /\ invs[k].value = Error(invs[k].base + 1)

C4_ChunkReconstructs ==
    \A k \in 1..Len(invs) :
        LET inv == invs[k] IN
        /\ Len(inv.batches) = BatchCount(Len(inv.items), batchSize)
        /\ Len(inv.items) = 0 => Len(inv.batches) = 0
        /\ Flatten(inv.batches) = inv.items

\* items with a repeated value, chunked into more than one batch
C4_Witness ==
    \E k \in 1..Len(invs) :
        /\ Len(invs[k].batches) >= 2
        /\ \E a, b \in 1..Len(invs[k].items) : a # b /\ invs[k].items[a] = invs[k].items[b]

\* C5: for a non-empty input and positive size every batch is non-empty and
\* at most size long, every batch but the last is exactly size long, and the
\* last is n mod size long, or size when size divides n.
C5_ChunkSizes ==
    \A k \in 1..Len(invs) :
        LET inv == invs[k]
            n == Len(inv.items)
            m == Len(inv.batches)
        IN  n > 0 =>
              /\ m > 0
              /\ \A j \in 1..m :
                    /\ Len(inv.batches[j]) >= 1
                    /\ Len(inv.batches[j]) <= batchSize
                    /\ j < m => Len(inv.batches[j]) = batchSize
              /\ Len(inv.batches[m]) = IF n % batchSize = 0 THEN batchSize ELSE n % batchSize

\* a short last batch after a full one
C5_Witness ==
    \E k \in 1..Len(invs) :
        /\ Len(invs[k].batches) >= 2
        /\ Len(invs[k].items) % batchSize # 0
        /\ Len(invs[k].batches[Len(invs[k].batches)]) < batchSize

\* C6 as stated: with a batch size of 0 or less every trigger either is
\* rejected with an InvalidConfiguration error before any operation call, or
\* chunks its items as with size 1.
C6_InvalidConfiguration ==
    batchSize <= 0 =>
        \A k \in 1..Len(invs) :
            \/ /\ invs[k].state = "rejected"
               /\ invs[k].value = <<"error", "InvalidConfiguration">>
               /\ \A c \in 1..Len(calls) : calls[c].inv # k
            \/ /\ invs[k].state # "hung"
               /\ invs[k].batches = chunkArray(invs[k].items, 1)

\* C7 as stated: in an invocation with at least one batch the progress value
\* is 100 exactly when every batch has settled.
C7_ProgressCompletion ==
    \A k \in 1..Len(invs) :
        Len(invs[k].batches) > 0 =>
            (progress = 100 <=> invs[k].completedCount = Len(invs[k].batches))

Pending == {k \in 1..Len(invs) : invs[k].state = "pending"}

\* p is the exact quotient 100 c / n rounded to the nearest integer, half up
IsRounded(p, c, n) == 2 * n * p <= 200 * c + n /\ 200 * c + n < 2 * n * (p + 1)

\* the step runs a settlement handler of invocation k
SettlesBatch(k) == k <= Len(invs) /\ invs'[k].completedCount # invs[k].completedCount

\* the invocations with a batch still to settle
InFlight == {k \in Pending : \E j \in 1..Len(invs[k].ops) : invs[k].ops[j] = "pending"}

Positions(inv, s) ==
    SelectSeq([j \in 1..Len(inv.ops) |-> j], LAMBDA j : inv.ops[j] = s)

\* C9: the data of a resolved invocation are the results of its successful
\* batches in increasing batch index, and its errors those of its failed
\* batches in increasing batch index.
C9_IndexOrder ==
    \A k \in 1..Len(invs) :
        LET inv == invs[k]
            oks == Positions(inv, "ok")
            errs == Positions(inv, "err")
        IN  (inv.state = "resolved" /\ Len(inv.batches) > 0) =>
              /\ inv.value.data = [j \in 1..Len(oks) |-> Data(inv.base + oks[j])]
              /\ inv.value.errors = [j \in 1..Len(errs) |-> Error(inv.base + errs[j])]

\* three batches settled in decreasing index order, two of them successfully
C9_Witness ==
    \E k \in 1..Len(invs) :
        /\ invs[k].state = "resolved"
        /\ invs[k].order = <<2, 1, 0>>
        /\ invs[k].ops = <<"ok", "err", "ok">>
        /\ invs[k].value.data = <<Data(invs[k].base + 1), Data(invs[k].base + 3)>>

\* the step triggers an invocation with no items
TriggersEmpty == Len(invs') = Len(invs) + 1 /\ invs'[Len(invs')].items = <<>>

\* C10: a trigger with no items resolves at once with the empty result, calls
\* the operation for no batch and leaves the progress at 0; no operation call
\* is ever made for it.
C10_EmptyInput ==
    /\ [][TriggersEmpty =>
            /\ invs'[Len(invs')].state = "resolved"
            /\ invs'[Len(invs')].value =
                 [data |-> <<>>, totalBatches |-> 0, completedBatches |-> 0, errors |-> <<>>]
            /\ calls' = calls
            /\ progress' = 0
         ]_vars
    /\ [](\A k \in 1..Len(invs) :
             invs[k].items = <<>> =>
                /\ invs[k].state = "resolved"
                /\ \A c \in 1..Len(calls) : calls[c].inv # k)

\* an empty trigger after an invocation that had ended with progress 100
C10_Witness ==
    /\ Len(invs) = 2
    /\ Len(invs[1].batches) > 0
    /\ Settled(invs[1])
    /\ invs[2].items = <<>>
    /\ invs[2].state = "resolved"
    /\ progress = 0

\* the lengths of the batches, in index order
Lengths(batches) == [j \in 1..Len(batches) |-> Len(batches[j])]

\* C11: every result an invocation of the imperative orchestrator resolves
\* with, and the data of the cached orchestrator in every state in which it
\* is mounted (so after every change of its items or batch size), has
\* totalBatches = ceil(len(items) / batchSize); with the batch size left at
\* its default of 500, 1300 items make 3 batches of 500, 500 and 300 items.
C11_TotalBatches ==
    /\ \A k \in 1..Len(invs) :
          invs[k].state = "resolved" =>
              /\ invs[k].value.totalBatches = BatchCount(Len(invs[k].items), batchSize)
              /\ (batchSize = DefaultBatchSize /\ Len(invs[k].items) = DemoItems) =>
                     /\ invs[k].value.totalBatches = 3
                     /\ Lengths(invs[k].batches) = <<500, 500, 300>>
    /\ hook.mounted =>
          /\ View.data.totalBatches = BatchCount(Len(hook.items), hook.batchSize)
          /\ (hook.batchSize = DefaultBatchSize /\ Len(hook.items) = DemoItems) =>
                 /\ View.data.totalBatches = 3
                 /\ Lengths(Batches(hook)) = <<500, 500, 300>>

\* both hooks have chunked the 1300 ids with the default batch size and the
\* invocation has resolved
C11_Witness ==
    /\ hook.mounted
    /\ hook.batchSize = DefaultBatchSize
    /\ Len(hook.items) = DemoItems
    /\ View.data.totalBatches = 3
    /\ \E k \in 1..Len(invs) :
          /\ invs[k].state = "resolved"
          /\ batchSize = DefaultBatchSize
          /\ Len(invs[k].items) = DemoItems
          /\ invs[k].value.totalBatches = 3

\* C12: a render with a base key, batch size and item collection for which
\* every batch has data in the cache that an earlier render with the same base
\* key fetched for the same batch at the same index, still within its
\* freshness window, calls queryFn for no batch (so a batch fetched once stays
\* fetched once), and the hook shows every batch as successful, none
\* fetching.
C12_CacheReuse ==
    (hook.mounted /\ hook.hits = 1..Len(Batches(hook)))
        => /\ hook.fetched = {}
           /\ View.isSuccess
           /\ ~View.isFetching
           /\ Len(View.data.data) = Len(Batches(hook))

\* two batches were fetched once each, the hook was rendered again with the
\* same props and both batches came from the cache
C12_Witness ==
    /\ hook.mounted
    /\ hook.hits = {1, 2}
    /\ Len(Batches(hook)) = 2
    /\ qcalls = 2
    /\ \A query \in cache : query.fetches = 1
    /\ View.isSuccess

\* the step is a render of the hook with new props
Rebinds == hook' # hook /\ hook'.mounted

\* every batch of the items, chunked by size, has fresh data in the cache that
\* was fetched for it under the base key
AllFresh(base, items, size) ==
    Hits(base, items, size) = 1..Len(chunkArray(items, size))

\* the step renders the hook with ids 1..M while the cache holds fresh data
\* for every batch of the ids 1..N, M < N, under the same base key and batch
\* size
RebindsToPrefix(N) ==
    /\ Rebinds
    /\ Len(hook'.items) < N
    /\ hook'.items = Range(1, Len(hook'.items))
    /\ AllFresh(hook'.queryKey, Range(1, N), hook'.batchSize)

RebindsToSuffix(N) ==
    LET size == hook'.batchSize
        first == ((N - 1) \div size) * size + 1
    IN  /\ Rebinds
        /\ first > 1
        /\ hook'.items = Range(first, first + Len(hook'.items) - 1)
        /\ first + Len(hook'.items) - 1 > N
        /\ AllFresh(hook'.queryKey, Range(1, N), size)

\* C14: when the cache holds fresh data for every batch of the ids 1..N and
\* the hook is rendered with ids that start with the last of these batches and
\* go beyond N, under the same base key and batch size, queryFn is called only
\* for the ids above N, ceil((number of ids above N) / batchSize) times, and
\* no id up to N is handed to queryFn again.
C14_SuffixReuse ==
    [][\A N \in 1..MaxId :
          RebindsToSuffix(N) =>
              LET batches == Batches(hook')
                  last == hook'.items[Len(hook'.items)]
              IN  /\ qcalls' - qcalls = BatchCount(last - N, hook'.batchSize)
                  /\ \A j \in hook'.fetched : \A n \in 1..Len(batches[j]) :
                        batches[j][n] > N]_vars

\* the batch of a base key at a 0-based index that a key was built for
Origin(base, index, batch) == [base |-> base, index |-> index, batch |-> batch]

\* the batches the hook has built keys for: those of its current props and
\* those of the queries in the cache
Origins ==
    {Origin(query.base, query.index, query.batch) : query \in cache}
        \cup {Origin(hook.queryKey, j - 1, Batches(hook)[j]) : j \in 1..Len(Batches(hook))}

KeyOf(origin) == QueryKey(origin.base, origin.index, origin.batch)

\* C15: the key of a batch is the base key followed by 'batch', the batch
\* index and the batch contents, and the keys of two batches of any renders
\* are equal if and only if their base keys, their indices and their contents
\* are equal.
C15_KeyComposition ==
    /\ \A query \in cache :
          /\ query.queryKey = KeyOf(Origin(query.base, query.index, query.batch))
          /\ Len(query.queryKey) = Len(query.base) + 3
          /\ SubSeq(query.queryKey, 1, Len(query.base)) = query.base
          /\ query.queryKey[Len(query.base) + 1] = Str("batch")
          /\ query.queryKey[Len(query.base) + 2] = Num(query.index)
          /\ query.queryKey[Len(query.base) + 3] = Arr(query.batch)
    /\ \A a \in Origins : \A b \in Origins : (KeyOf(a) = KeyOf(b)) <=> (a = b)

\* the cache holds queries of two base keys of different lengths and the hook
\* is rendered with a batch whose contents are cached at another index
C15_Witness ==
    /\ hook.mounted
    /\ \E p \in cache : \E q \in cache : Len(p.base) # Len(q.base)
    /\ \E q \in cache : \E j \in 1..Len(Batches(hook)) :
          /\ q.batch = Batches(hook)[j]
          /\ q.index # j - 1

\* the current batches, by their 1-based index, whose query is in the success
\* state, in the error state, in neither
SuccessBatches == {j \in 1..Len(Queries(hook)) : Queries(hook)[j].isSuccess}
ErrorBatches == {j \in 1..Len(Queries(hook)) : Queries(hook)[j].isError}
UnsettledBatches == (1..Len(Queries(hook))) \ (SuccessBatches \cup ErrorBatches)

\* C16: in every state of the mounted hook isSuccess is true if and only if
\* every current batch is in the success state, and data holds one element
\* per batch in the success state and errors one per batch in the error
\* state, whatever the other batches do.
C16_OverallSuccess ==
    hook.mounted =>
        /\ View.isSuccess <=> (SuccessBatches = 1..Len(Batches(hook)))
        /\ Len(View.data.data) = Cardinality(SuccessBatches)
        /\ Len(View.data.errors) = Cardinality(ErrorBatches)

\* C17: in every state of the mounted hook isError is true if and only if a
\* current batch is in the error state; error is then the error of the
\* errored batch with the lowest index, and null when no batch is errored;
\* pending and successful batches change neither.
C17_FailurePolicy ==
    hook.mounted =>
        /\ View.isError <=> (ErrorBatches # {})
        /\ ErrorBatches = {} => View.error = NoError
        /\ ErrorBatches # {} =>
              LET first == CHOOSE j \in ErrorBatches : \A i \in ErrorBatches : j <= i
              IN  /\ View.error = Queries(hook)[first].error
                  /\ View.error = QueryError(Batches(hook)[first], Find(Keys(hook)[first]).fetches)

\* three batches, the first successful, the second and the third errored
C17_Witness ==
    /\ hook.mounted
    /\ SuccessBatches = {1}
    /\ ErrorBatches = {2, 3}
    /\ View.isError
    /\ View.error = QueryError(Batches(hook)[2], 1)

\* C18 as stated: completedBatches <= totalBatches in every state, and once
\* every current batch has settled, len(data) + len(errors) = completedBatches.
C18_AsStated ==
    hook.mounted =>
        /\ View.data.completedBatches <= View.data.totalBatches
        /\ UnsettledBatches = {} =>
              Len(View.data.data) + Len(View.data.errors) = View.data.completedBatches

\* C18 (amended): completedBatches is the number of current batches in the
\* success state, so completedBatches <= totalBatches in every state; errors
\* holds one element per batch in the error state and data at most one per
\* batch in the success state; once every current batch has settled,
\* completedBatches + len(errors) = totalBatches.
C18_ResultInvariant ==
    hook.mounted =>
        /\ View.data.completedBatches = Cardinality(SuccessBatches)
        /\ View.data.completedBatches <= View.data.totalBatches
        /\ Len(View.data.errors) = Cardinality(ErrorBatches)
        /\ Len(View.data.data) <= View.data.completedBatches
        /\ UnsettledBatches = {} =>
              View.data.completedBatches + Len(View.data.errors) = View.data.totalBatches

\* every batch has settled, one of them with an error
C18_Witness ==
    /\ hook.mounted
    /\ UnsettledBatches = {}
    /\ Cardinality(SuccessBatches) = 2
    /\ Cardinality(ErrorBatches) = 1

\* the exact quotient 100 * count / total rounded to the nearest integer, a
\* half rounded up
RoundedPercent(count, total) == (200 * count + total) \div (2 * total)

C20_SettlementAccounting ==
    hook.mounted =>
        /\ Len(View.data.data) = Cardinality(SuccessBatches)
        /\ Len(View.data.errors) = Cardinality(ErrorBatches)
        /\ View.data.totalBatches > 0 =>
              View.progress =
                  RoundedPercent(Cardinality(SuccessBatches \cup ErrorBatches),
                                 View.data.totalBatches)
        /\ (View.data.totalBatches > 0 /\ UnsettledBatches = {}) => View.progress = 100

\* the fetch of a query that a call of refetch started has ended
RefetchSettled(call, j) ==
    LET query == Find(call.keys[j])
    IN  \/ query.fetches > call.before[j] + 1
        \/ query.fetches = call.before[j] + 1 /\ query.fetchStatus = "idle"

\* C21: every call of refetch called queryFn once for each batch of the
\* render it was called in, batches with fresh data included (the fetch count
\* of each of their queries went up by one), and the promise refetch returned
\* is resolved only when each of those fetches has ended, in success or in
\* error; until then it is pending.
C21_Refetch ==
    \A n \in 1..Len(refetches) :
        LET call == refetches[n] IN
        /\ call.called = Len(call.keys)
        /\ \A j \in 1..Len(call.keys) :
              /\ Cached(call.keys[j])
              /\ Find(call.keys[j]).fetches >= call.before[j] + 1
              /\ call.keys[j] \in call.waiting => ~RefetchSettled(call, j)
        /\ call.state = "resolved" =>
              \A j \in 1..Len(call.keys) : RefetchSettled(call, j)

\* refetch was called over two batches, the first with fresh data, and has
\* resolved after one refetch succeeded and the other failed
C21_Witness ==
    /\ Len(refetches) = 1
    /\ refetches[1].state = "resolved"
    /\ Len(refetches[1].keys) = 2
    /\ 1 \in refetches[1].fresh
    /\ qcalls = 4
    /\ Find(refetches[1].keys[1]).status = "success"
    /\ Find(refetches[1].keys[1]).fetches = 2
    /\ Find(refetches[1].keys[2]).status = "error"

\* the batches of an invocation whose operation failed, by rejecting its
\* promise or by throwing
Failed(inv) == {j \in 1..Len(inv.ops) : inv.ops[j] \in {"err", "thrown"}}

\* C22: an invocation is rejected only when every one of its batches failed,
\* never while a batch of it succeeded, is pending or was not dispatched; and
\* a resolved invocation has one entry of errors for each failed batch.
C22_ErrorContainment ==
    \A k \in 1..Len(invs) :
        /\ invs[k].state = "rejected" => Failed(invs[k]) = 1..Len(invs[k].ops)
        /\ invs[k].state = "resolved" => Len(invs[k].value.errors) = Cardinality(Failed(invs[k]))

\* the step is a trigger: a new invocation has been added
Triggers == Len(invs') = Len(invs) + 1

\* C23: a trigger while an invocation is pending leaves that invocation
\* pending with its batches as they were (it is not cancelled), dispatches
\* every batch of the new invocation in the same step (it is not queued
\* behind the pending one) and resets the progress to 0; and every batch
\* settlement of any pending invocation, the newest or not, writes the
\* progress of its own invocation.
C23_OverlappingTriggers ==
    [][/\ Triggers =>
             /\ progress' = 0
             /\ \A k \in Pending :
                   /\ invs'[k].state = "pending"
                   /\ invs'[k].ops = invs[k].ops
                   /\ invs'[k].results = invs[k].results
                   /\ invs'[k].overlapped
             /\ Len(calls') = Len(calls) + Len(invs'[Len(invs')].batches)
       /\ \A k \in 1..Len(invs) :
             SettlesBatch(k) => IsRounded(progress', invs'[k].completedCount, Len(invs[k].batches))
      ]_vars

\* two pending invocations, the newer with no batch settled: the progress is
\* not the 0 it was reset to but the value a settlement of the older one
\* wrote afterwards
C23_Witness ==
    /\ Len(invs) = 2
    /\ invs[1].state = "pending"
    /\ invs[1].overlapped
    /\ invs[2].state = "pending"
    /\ invs[2].completedCount = 0
    /\ invs[1].completedCount = 1
    /\ Len(invs[1].batches) = 2
    /\ progress = 50

\* the flags of the mutation that the hook spreads into its result
IsPending == mutation.status = "pending"
IsSuccessFlag == mutation.status = "success"
IsErrorFlag == mutation.status = "error"

\* the step ends the k-th run of mutationFn with a throw that no retry follows:
\* the invocation rejects
Rejects(k) ==
    /\ invs'[k].state = "rejected"
    /\ k <= Len(invs) => invs[k].state # "rejected"
    /\ invs'[k].failures >= mutation.retry

\* C24: in every state at most one of isPending, isSuccess and isError is
\* true, and data is undefined as long as no invocation has resolved (when
\* defined it is the result an invocation resolved with); and every step in
\* which an invocation rejects leaves isError true, isPending and isSuccess
\* false, and error equal to the error the invocation rejected with.
C24_StatusFlags ==
    /\ [](/\ Cardinality({f \in {"pending", "success", "error"} :
                             \/ f = "pending" /\ IsPending
                             \/ f = "success" /\ IsSuccessFlag
                             \/ f = "error" /\ IsErrorFlag}) <= 1
          /\ (\A k \in 1..Len(invs) : invs[k].state # "resolved") => mutation.data = Undefined
          /\ mutation.data # Undefined =>
                \E k \in 1..Len(invs) : invs[k].state = "resolved" /\ invs[k].value = mutation.data)
    /\ [][\A k \in 1..Len(invs') :
             Rejects(k) => /\ mutation'.status = "error"
                           /\ ~(mutation'.status \in {"pending", "success"})
                           /\ mutation'.error = invs'[k].value]_vars

\* the second invocation has rejected after the first resolved: isError with
\* the error of the first batch of the second invocation, data undefined again
C24_Witness ==
    /\ Len(invs) = 2
    /\ invs[1].state = "resolved"
    /\ invs[2].state = "rejected"
    /\ Len(invs[2].batches) = 2
    /\ IsErrorFlag
    /\ ~IsPending
    /\ ~IsSuccessFlag
    /\ mutation.error = Error(invs[2].base + 1)
    /\ mutation.data = Undefined

\* C25: in every state, also before any batch of it has settled, the calls of
\* the per-batch operation that an invocation made are in the log one after
\* the other in increasing batch index from index 0, each with its own batch,
\* for every batch of the invocation; the handlers of the batches have run in
\* some order without repetition.
C25_DispatchOrder ==
    \A k \in 1..Len(invs) :
        LET inv == invs[k] IN
        /\ inv.base + Len(inv.batches) <= Len(calls)
        /\ \A j \in 1..Len(inv.batches) :
              /\ calls[inv.base + j].inv = k
              /\ calls[inv.base + j].index = j - 1
              /\ calls[inv.base + j].batch = inv.batches[j]
        /\ \A a, b \in 1..Len(inv.order) : a # b => inv.order[a] # inv.order[b]
        /\ \A a \in 1..Len(inv.order) : inv.order[a] \in 0..(Len(inv.batches) - 1)

\* three batches dispatched 0, 1, 2 have settled in the order 2, 0, 1
C25_Witness ==
    /\ Len(invs) = 1
    /\ Len(invs[1].batches) = 3
    /\ calls[1].index = 0
    /\ calls[2].index = 1
    /\ calls[3].index = 2
    /\ invs[1].order = <<2, 0, 1>>

\* an outcome of the per-batch operation without the number of the call that
\* produced it: its kind and the batch it was called with
OutcomeOfCall(value) ==
    IF value = Falsy THEN Falsy ELSE <<value[1], calls[value[2]].batch>>
OutcomeOfFetch(value) ==
    IF value = Falsy THEN Falsy ELSE <<value[1], value[2]>>

OutcomesOfCalls(values) == [n \in 1..Len(values) |-> OutcomeOfCall(values[n])]
OutcomesOfFetches(values) == [n \in 1..Len(values) |-> OutcomeOfFetch(values[n])]

\* the operation had the same outcome for every batch under both hooks
SameOutcomes(inv) ==
    /\ Len(inv.results) = Len(Queries(hook))
    /\ \A j \in 1..Len(inv.results) :
          LET result == inv.results[j]
              query == Queries(hook)[j]
          IN  /\ result # NoResult
              /\ result.success <=> query.isSuccess
              /\ ~result.success <=> query.isError
              /\ OutcomeOfCall(result.value) =
                    OutcomeOfFetch(IF query.isSuccess THEN query.data ELSE query.error)

\* C26: when both hooks were given the same items and batch size and the
\* operation had the same outcome for every batch, at least one a success,
\* the data of the cached orchestrator with every batch settled is the result
\* the imperative invocation resolved with: the same data and errors in the
\* same order, the same totalBatches and completedBatches.
C26_AggregationEquivalence ==
    \A k \in 1..Len(invs) :
        (/\ hook.mounted
         /\ invs[k].state = "resolved"
         /\ invs[k].items = hook.items
         /\ batchSize = hook.batchSize
         /\ SameOutcomes(invs[k])
         /\ OkCount(invs[k]) >= 1)
        => /\ OutcomesOfFetches(View.data.data) = OutcomesOfCalls(invs[k].value.data)
           /\ OutcomesOfFetches(View.data.errors) = OutcomesOfCalls(invs[k].value.errors)
           /\ View.data.totalBatches = invs[k].value.totalBatches
           /\ View.data.completedBatches = invs[k].value.completedBatches

\* the calls of the per-batch operation that run k made for the batch with
\* the 0-based index
CallsOf(k, index) == {n \in 1..Len(calls) : calls[n].inv = k /\ calls[n].index = index}

\* C27: the runs of mutationFn of one trigger under retry: 2 are successive
\* attempts over the same items, at most three; in every run the per-batch
\* operation is called exactly once for every batch; a run in which a batch
\* succeeded resolves and is followed by no other run, so its failed batches
\* are not tried again; a run is followed by another only when every one of
\* its batches failed, and the new run starts with the progress at 0 and all
\* batches dispatched; the mutation shows an error only after the third run
\* has failed and is pending until then.
C27_RetryGranularity ==
    /\ Len(invs) <= UsersRetry + 1
    /\ \A k \in 1..Len(invs) :
          LET inv == invs[k] IN
          /\ inv.failures = k - 1
          /\ inv.items = invs[1].items
          /\ \A j \in 1..Len(inv.batches) : Cardinality(CallsOf(k, j - 1)) = 1
          /\ Cardinality({n \in 1..Len(calls) : calls[n].inv = k}) = Len(inv.batches)
          /\ OkCount(inv) >= 1 => k = Len(invs) /\ ~inv.retried /\ inv.state # "rejected"
          /\ inv.state = "resolved" => k = Len(invs)
          /\ k < Len(invs) =>
                /\ inv.state = "rejected"
                /\ ErrCount(inv) = Len(inv.batches)
                /\ inv.retried
          /\ (k = Len(invs) /\ inv.state = "pending" /\ inv.completedCount = 0) => progress = 0
          /\ (k = Len(invs) /\ inv.state = "rejected" /\ inv.failures < UsersRetry) =>
                mutation.status = "pending"
    /\ mutation.status = "error" =>
          /\ Len(invs) = UsersRetry + 1
          /\ invs[Len(invs)].state = "rejected"

\* two batches that failed in all three runs: six calls, then the rejection
C27_Witness ==
    /\ Len(invs) = 3
    /\ Len(invs[1].batches) = 2
    /\ \A k \in 1..3 : invs[k].state = "rejected" /\ ErrCount(invs[k]) = 2
    /\ Len(calls) = 6
    /\ mutation.status = "error"
    /\ mutation.error = Error(5)

\* C28: in every state, whatever the order in which the handlers have run,
\* the completed counter of every invocation is the number of its batches
\* that have settled, each counted once, so it lies between 0 and the number
\* of batches, and it is the number of handlers that have run; the progress
\* is an integer from 0 to 100, either 0 or the rounded percentage of a
\* counter value some invocation has reached.
C28_CompletionCounter ==
    /\ \A k \in 1..Len(invs) :
          LET inv == invs[k] IN
          /\ inv.completedCount = OkCount(inv) + ErrCount(inv)
          /\ inv.completedCount = Len(inv.order)
          /\ inv.completedCount = Cardinality({j \in 1..Len(inv.results) : inv.results[j] # NoResult})
          /\ \A a, b \in 1..Len(inv.order) : a # b => inv.order[a] # inv.order[b]
          /\ 0 <= inv.completedCount
          /\ inv.completedCount <= Len(inv.batches)
    /\ progress \in 0..100
    /\ \/ progress = 0
       \/ \E k \in 1..Len(invs) : \E c \in 1..invs[k].completedCount :
             IsRounded(progress, c, Len(invs[k].batches))

\* three batches after the handlers of the third and the first have run, a
\* failure and a success: counter 2, progress 67
C28_Witness ==
    /\ Len(invs) = 1
    /\ Len(invs[1].batches) = 3
    /\ invs[1].order = <<2, 0>>
    /\ invs[1].ops = <<"ok", "pending", "err">>
    /\ invs[1].completedCount = 2
    /\ progress = 67

\* C29: in every state of the mounted hook in which isSuccess is true and
\* there is at least one batch, progress is 100, errors is empty, isError
\* and isLoading are false and data has one element per batch; isSuccess and
\* isError are never both true.
C29_SuccessState ==
    hook.mounted =>
        /\ (View.isSuccess /\ View.data.totalBatches > 0) =>
              /\ View.progress = 100
              /\ View.data.errors = <<>>
              /\ ~View.isError
              /\ ~View.isLoading
              /\ Len(View.data.data) = View.data.totalBatches
        /\ ~(View.isSuccess /\ View.isError)

\* the hook is mounted with an empty item collection
EmptyItems == hook.mounted /\ hook.items = <<>>

\* the keys of the queries in the cache
CachedKeys == {query.queryKey : query \in cache}

\* C30: while the hook is mounted with an empty item collection it observes
\* no query, the render called queryFn for no batch, and it returns
\* data = {data: [], totalBatches: 0, completedBatches: 0, errors: []},
\* progress 0, isLoading false, isFetching false, isError false, error null
\* and isSuccess true; no step that leaves the hook with an empty collection,
\* a render or a refetch, calls queryFn or adds a query to the cache, and a
\* refetch called on an empty collection waits for nothing.
C30_EmptyCollection ==
    /\ [](EmptyItems =>
             /\ Keys(hook) = <<>>
             /\ hook.fetched = {}
             /\ View = [data |-> [data |-> <<>>, totalBatches |-> 0,
                                  completedBatches |-> 0, errors |-> <<>>],
                        progress |-> 0,
                        isLoading |-> FALSE,
                        isFetching |-> FALSE,
                        isSuccess |-> TRUE,
                        isError |-> FALSE,
                        error |-> NoError])
    /\ [][EmptyItems' =>
             /\ qcalls' = qcalls
             /\ CachedKeys' = CachedKeys
             /\ Len(refetches') > Len(refetches) =>
                   /\ refetches'[Len(refetches')].called = 0
                   /\ refetches'[Len(refetches')].waiting = {}]_vars

\* the hook was first rendered with an empty collection and refetch was called
\* and has resolved: no query, no call of queryFn
C30_Witness ==
    /\ EmptyItems
    /\ cache = {}
    /\ qcalls = 0
    /\ Len(refetches) = 1
    /\ refetches[1].state = "resolved"
    /\ View.isSuccess

====
